---- MODULE Spec2Model ----
(***************************************************************************)
(* Model of apps/wallet/get_public_key.py: the GetPublicKey handler of the *)
(* wallet application.  A handler task runs get_public_key(ctx, msg) for   *)
(* one message.  The task gives up control at its two await expressions    *)
(* (seed.derive_node and, through _show_pubkey, require_confirm); the code *)
(* between two awaits runs as one step.                                    *)
(*                                                                         *)
(* Optional message fields are sequences: <<>> is an absent field (None),  *)
(* <<v>> a field holding v.  Byte strings are sequences of 0..255.         *)
(***************************************************************************)
EXTENDS Integers, Sequences, FiniteSets, TLC

VARIABLES msg, pc, calls, derived, node, node_xpub, pubkey, decision,
          outcome, resp

vars == <<msg, pc, calls, derived, node, node_xpub, pubkey, decision,
          outcome, resp>>

(***************************************************************************)
(* Bounds of the model.                                                    *)
(***************************************************************************)
MaxPathLen == 1

PathIndices == {0, 44}

(***************************************************************************)
(* Collaborators that the handler imports.                                 *)
(***************************************************************************)
PubKeyLen == 33

ChunkWidth == 18

HexDigits ==
    <<"0", "1", "2", "3", "4", "5", "6", "7",
      "8", "9", "a", "b", "c", "d", "e", "f">>

\* ubinascii.hexlify(b).decode(): two lower-case hex digits per byte.
hexlify(b) ==
    [i \in 1..(2 * Len(b)) |->
        IF i % 2 = 1 THEN HexDigits[(b[(i + 1) \div 2] \div 16) + 1]
                     ELSE HexDigits[(b[i \div 2] % 16) + 1]]

\* trezor.utils.chunks(s, n): consecutive slices of n items, the last shorter.
chunks(s, n) ==
    [k \in 1..((Len(s) + n - 1) \div n) |->
        SubSeq(s, (k - 1) * n + 1, IF k * n < Len(s) THEN k * n ELSE Len(s))]

\* apps.common.coins: the registry, each coin with its 4-byte xpub magic.
COINS ==
    { [coin_name |-> "Bitcoin", xpub_magic |-> <<4, 136, 178, 30>>],
      [coin_name |-> "Testnet", xpub_magic |-> <<4, 53, 135, 207>>] }

\* coins.by_name(name): <<coin>> when registered, <<>> when the lookup raises.
by_name(name) ==
    IF \E c \in COINS : c.coin_name = name
    THEN <<CHOOSE c \in COINS : c.coin_name = name>>
    ELSE <<>>

BE32(n) ==
    <<(n \div 16777216) % 256, (n \div 65536) % 256, (n \div 256) % 256, n % 256>>

\* HDNode.serialize_public(version): the node's own fields behind the magic.
serialize_public(n, version) ==
    version \o <<n.depth>> \o n.fingerprint \o BE32(n.child_num)
            \o n.chain_code \o n.public_key

\* The leading format bytes a derived node's compressed key can carry.
KeyPrefixes == {0, 1, 2, 3}

KeySeeds == {1, 171}

\* The nodes seed.derive_node can return for a path.
HDNodes(path) ==
    { [depth       |-> Len(path) % 256,
       child_num   |-> IF path = <<>> THEN 0 ELSE path[Len(path)],
       fingerprint |-> <<Len(path), 17, 34, 51>>,
       chain_code  |-> [i \in 1..(PubKeyLen - 1) |-> (5 * i) % 256],
       public_key  |-> <<p>> \o [i \in 1..(PubKeyLen - 1) |->
                                    IF i = 1 THEN s ELSE (7 * i) % 256]]
      : p \in KeyPrefixes, s \in KeySeeds }

(***************************************************************************)
(* Messages.                                                               *)
(***************************************************************************)
Paths == UNION { [1..k -> PathIndices] : k \in 0..MaxPathLen }

CoinNames == { <<>>, <<"">>, <<"Bitcoin">>, <<"Testnet">>, <<"Dogecoin">> }

CurveNames == { <<>>, <<"">>, <<"ed25519">> }

Flags == { <<>>, <<FALSE>>, <<TRUE>> }

GetPublicKey ==
    [address_n : Paths, coin_name : CoinNames,
     ecdsa_curve_name : CurveNames, show_display : Flags]

Call(fn, params) == [fn |-> fn, params |-> params]

(***************************************************************************)
(* get_public_key, expression by expression.                               *)
(***************************************************************************)
\* Faulty variant: the coin name of the message is ignored.
ResolveCoinNameFixed(m) == "Bitcoin"

\* Faulty variant: "coin_name is None" in place of the truth test.
ResolveCoinNameNoneOnly(m) ==
    IF m.coin_name = <<>> THEN "Bitcoin" ELSE m.coin_name[1]

\* Line 13: msg.coin_name or 'Bitcoin'
ResolveCoinName(m) ==
    IF m.coin_name = <<>> \/ m.coin_name[1] = "" THEN "Bitcoin"
    ELSE m.coin_name[1]

\* Faulty variant: curve_name is passed in both branches.
DeriveCallAlwaysCurve(m) ==
    Call("derive_node",
         <<m.address_n,
           IF m.ecdsa_curve_name = <<>> THEN <<"">> ELSE m.ecdsa_curve_name>>)

\* The derive_node call of lines 15-19: the curve_name keyword is passed
\* only in the else branch.
DeriveCall(m) ==
    IF m.ecdsa_curve_name = <<>> \/ m.ecdsa_curve_name[1] = ""
    THEN Call("derive_node", <<m.address_n, <<>>>>)
    ELSE Call("derive_node", <<m.address_n, m.ecdsa_curve_name>>)

\* Faulty variant: the magic of the default coin is used for every coin.
SerializeDefaultMagic(n, coin) ==
    serialize_public(n, by_name("Bitcoin")[1].xpub_magic)

\* Line 22: node.serialize_public(coin.xpub_magic)
Serialize(n, coin) == serialize_public(n, coin.xpub_magic)

\* Faulty variant: the first byte is cleared without the test of line 24.
NormalizeAlways(k) == <<0>> \o SubSeq(k, 2, Len(k))

\* Faulty variant: the slice pubkey[2:] in place of pubkey[1:].
NormalizeShort(k) ==
    IF k[1] = 1 THEN <<0>> \o SubSeq(k, 3, Len(k)) ELSE k

\* Lines 24-25: if pubkey[0] == 1: pubkey = b'\x00' + pubkey[1:]
Normalize(k) ==
    IF k[1] = 1 THEN <<0>> \o SubSeq(k, 2, Len(k)) ELSE k

HDNodeType(n, k) ==
    [depth |-> n.depth, child_num |-> n.child_num,
     fingerprint |-> n.fingerprint, chain_code |-> n.chain_code,
     public_key |-> k]

PublicKey(nt, xpub) == [node |-> nt, xpub |-> xpub]

\* Faulty variant: the key is shown whatever the flag.
ShowDisplayAlways(m) == TRUE

\* Line 33: if msg.show_display:
ShowDisplay(m) == m.show_display # <<>> /\ m.show_display[1]

\* _show_pubkey: the require_confirm call with the chunked hex of the key.
ShowPubkeyCall(k) ==
    Call("require_confirm",
         <<k, chunks(hexlify(k), ChunkWidth), "ButtonRequestType.PublicKey">>)

(***************************************************************************)
(* The steps of a handler task.                                            *)
(***************************************************************************)
Tasks == DOMAIN pc

\* Lines 13-19 up to the await of seed.derive_node.
Start(h) ==
    /\ pc[h] = "start"
    /\ calls' = [calls EXCEPT ![h] = Append(@, DeriveCall(msg[h]))]
    /\ pc' = [pc EXCEPT ![h] = "await_derive"]
    /\ UNCHANGED <<msg, derived, node, node_xpub, pubkey, decision,
                   outcome, resp>>

\* Faulty variant: the failure is caught and the derivation tried again.
DeriveFailsRetry(h) ==
    /\ pc[h] = "await_derive"
    /\ derived' = [derived EXCEPT ![h] = "failed"]
    /\ pc' = [pc EXCEPT ![h] = "start"]
    /\ UNCHANGED <<msg, calls, node, node_xpub, pubkey, decision,
                   outcome, resp>>

\* seed.derive_node raises: the exception leaves get_public_key.
DeriveFails(h) ==
    /\ pc[h] = "await_derive"
    /\ derived' = [derived EXCEPT ![h] = "failed"]
    /\ outcome' = [outcome EXCEPT ![h] = "DerivationFailure"]
    /\ pc' = [pc EXCEPT ![h] = "done"]
    /\ UNCHANGED <<msg, calls, node, node_xpub, pubkey, decision, resp>>

\* seed.derive_node returns a node: lines 20-36 up to the next await or
\* the return.
DeriveReturns(h) ==
    /\ pc[h] = "await_derive"
    /\ \E n \in HDNodes(msg[h].address_n) :
        LET coin_name == ResolveCoinName(msg[h])
            found     == by_name(coin_name)
            lookup    == Call("by_name", <<coin_name>>)
        IN  /\ derived' = [derived EXCEPT ![h] = "ok"]
            /\ node' = [node EXCEPT ![h] = <<n>>]
            /\ IF found = <<>>
               THEN /\ calls' = [calls EXCEPT ![h] = Append(@, lookup)]
                    /\ outcome' = [outcome EXCEPT ![h] = "UnknownCoin"]
                    /\ pc' = [pc EXCEPT ![h] = "done"]
                    /\ UNCHANGED <<node_xpub, pubkey, resp>>
               ELSE LET coin == found[1]
                        xpub == Serialize(n, coin)
                        k    == Normalize(n.public_key)
                        ser  == Call("serialize_public", <<coin.xpub_magic>>)
                    IN  /\ node_xpub' = [node_xpub EXCEPT ![h] = xpub]
                        /\ pubkey' = [pubkey EXCEPT ![h] = k]
                        /\ IF ShowDisplay(msg[h])
                           THEN /\ calls' = [calls EXCEPT ![h] =
                                      @ \o <<lookup, ser, ShowPubkeyCall(k)>>]
                                /\ pc' = [pc EXCEPT ![h] = "await_confirm"]
                                /\ UNCHANGED <<outcome, resp>>
                           ELSE /\ calls' = [calls EXCEPT ![h] =
                                      @ \o <<lookup, ser>>]
                                /\ resp' = [resp EXCEPT ![h] =
                                      <<PublicKey(HDNodeType(n, k), xpub)>>]
                                /\ outcome' = [outcome EXCEPT ![h] = "Response"]
                                /\ pc' = [pc EXCEPT ![h] = "done"]
    /\ UNCHANGED <<msg, decision>>

\* require_confirm returns: line 36 builds the PublicKey message.
ConfirmApproved(h) ==
    /\ pc[h] = "await_confirm"
    /\ decision' = [decision EXCEPT ![h] = "approved"]
    /\ resp' = [resp EXCEPT ![h] =
                   <<PublicKey(HDNodeType(node[h][1], pubkey[h]), node_xpub[h])>>]
    /\ outcome' = [outcome EXCEPT ![h] = "Response"]
    /\ pc' = [pc EXCEPT ![h] = "done"]
    /\ UNCHANGED <<msg, calls, derived, node, node_xpub, pubkey>>

\* Faulty variant: the rejection is not raised and line 36 is reached.
ConfirmCancelledIgnored(h) ==
    /\ pc[h] = "await_confirm"
    /\ decision' = [decision EXCEPT ![h] = "cancelled"]
    /\ resp' = [resp EXCEPT ![h] =
                   <<PublicKey(HDNodeType(node[h][1], pubkey[h]), node_xpub[h])>>]
    /\ outcome' = [outcome EXCEPT ![h] = "Response"]
    /\ pc' = [pc EXCEPT ![h] = "done"]
    /\ UNCHANGED <<msg, calls, derived, node, node_xpub, pubkey>>

\* require_confirm raises on a rejection: the exception leaves _show_pubkey
\* and get_public_key.
ConfirmCancelled(h) ==
    /\ pc[h] = "await_confirm"
    /\ decision' = [decision EXCEPT ![h] = "cancelled"]
    /\ outcome' = [outcome EXCEPT ![h] = "UserCancelled"]
    /\ pc' = [pc EXCEPT ![h] = "done"]
    /\ UNCHANGED <<msg, calls, derived, node, node_xpub, pubkey, resp>>

InitTasks(m) ==
    /\ msg = m
    /\ pc = [h \in DOMAIN m |-> "start"]
    /\ calls = [h \in DOMAIN m |-> <<>>]
    /\ derived = [h \in DOMAIN m |-> "none"]
    /\ node = [h \in DOMAIN m |-> <<>>]
    /\ node_xpub = [h \in DOMAIN m |-> <<>>]
    /\ pubkey = [h \in DOMAIN m |-> <<>>]
    /\ decision = [h \in DOMAIN m |-> "none"]
    /\ outcome = [h \in DOMAIN m |-> "pending"]
    /\ resp = [h \in DOMAIN m |-> <<>>]

\* One message, one handler task.
Init == \E m \in GetPublicKey : InitTasks(<<m>>)

\* Two messages that differ in coin_name only: the first leaves it out or
\* empty, the second names a coin.
InitPair ==
    \E m \in GetPublicKey : \E c \in CoinNames \ {<<>>, <<"">>} :
        /\ m.coin_name \in {<<>>, <<"">>}
        /\ InitTasks(<<m, [m EXCEPT !.coin_name = c]>>)

Next ==
    \/ \E h \in Tasks : Start(h)
    \/ \E h \in Tasks : DeriveFails(h)
    \/ \E h \in Tasks : DeriveReturns(h)
    \/ \E h \in Tasks : ConfirmApproved(h)
    \/ \E h \in Tasks : ConfirmCancelled(h)

Spec == Init /\ [][Next]_vars

SpecPair == InitPair /\ [][Next]_vars

(***************************************************************************)
(* Vocabulary of the properties.  The coin a request asks for and the      *)
(* expected key are written out here, independently of the handler.        *)
(***************************************************************************)
Done(h) == pc[h] = "done"

FnCount(h, fn) == Cardinality({i \in 1..Len(calls[h]) : calls[h][i].fn = fn})

RequestedCoin(h) ==
    IF msg[h].coin_name \in {<<>>, <<"">>} THEN "Bitcoin"
    ELSE msg[h].coin_name[1]

Registered(h) == \E c \in COINS : c.coin_name = RequestedCoin(h)

DisplayRequested(h) == msg[h].show_display = <<TRUE>>

RawKey(h) == node[h][1].public_key

ExpectedKey(h) ==
    [i \in 1..Len(RawKey(h)) |->
        IF i = 1 /\ RawKey(h)[1] = 1 THEN 0 ELSE RawKey(h)[i]]

XpubKeyField(x) == SubSeq(x, Len(x) - PubKeyLen + 1, Len(x))

MagicLen == Len(by_name("Bitcoin")[1].xpub_magic)

(***************************************************************************)
(* C1 (as stated): a request for an unregistered coin fails with           *)
(* UnknownCoin, whatever the derivation does, and no derive_node call is   *)
(* ever made for it.                                                       *)
(***************************************************************************)
C1_UnknownCoinBeforeDerivation ==
    \A h \in Tasks :
        ~Registered(h) =>
            /\ FnCount(h, "derive_node") = 0
            /\ Done(h) => outcome[h] = "UnknownCoin"

(***************************************************************************)
(* C1 (amended): a request for an unregistered coin never yields a         *)
(* Response and never reaches the confirmation; its first collaborator     *)
(* call is derive_node, the coin lookup comes after it; it ends with       *)
(* UnknownCoin when the derivation succeeded and with DerivationFailure    *)
(* when the derivation failed.                                             *)
(***************************************************************************)
C1_UnknownCoinAfterDerivation ==
    \A h \in Tasks :
        ~Registered(h) =>
            /\ resp[h] = <<>>
            /\ FnCount(h, "require_confirm") = 0
            /\ FnCount(h, "serialize_public") = 0
            /\ calls[h] # <<>> => calls[h][1].fn = "derive_node"
            /\ FnCount(h, "by_name") > 0 => derived[h] = "ok"
            /\ Done(h) /\ derived[h] = "ok" => outcome[h] = "UnknownCoin"
            /\ Done(h) /\ derived[h] = "failed" =>
                   outcome[h] = "DerivationFailure"

C1_Witness ==
    \E h \in Tasks :
        /\ ~Registered(h)
        /\ Done(h)
        /\ derived[h] = "ok"
        /\ outcome[h] = "UnknownCoin"
        /\ Len(calls[h]) = 2

(***************************************************************************)
(* C2: in every Response the key field of the xpub (its last 33 bytes) is  *)
(* the normalized key of the Response's node record.                       *)
(***************************************************************************)
C2_XpubCarriesNormalizedKey ==
    \A h \in Tasks :
        resp[h] # <<>> =>
            XpubKeyField(resp[h][1].xpub) = resp[h][1].node.public_key

(***************************************************************************)
(* C3: a rejected confirmation ends the request with UserCancelled and     *)
(* without a Response; a request with show_display set has a Response      *)
(* only after the confirmation was approved.                               *)
(***************************************************************************)
C3_RejectionGivesNoResponse ==
    \A h \in Tasks :
        /\ decision[h] = "cancelled" =>
               outcome[h] = "UserCancelled" /\ resp[h] = <<>>
        /\ DisplayRequested(h) /\ (resp[h] # <<>> \/ outcome[h] = "Response") =>
               decision[h] = "approved"

C3_Witness ==
    \E h \in Tasks :
        /\ DisplayRequested(h)
        /\ decision[h] = "cancelled"
        /\ Done(h)
        /\ FnCount(h, "require_confirm") = 1

(***************************************************************************)
(* C4 (as stated): without show_display the confirmation is never invoked  *)
(* and the handler is never waiting at an await.                           *)
(***************************************************************************)
C4_NeverSuspends ==
    \A h \in Tasks :
        ~DisplayRequested(h) =>
            /\ FnCount(h, "require_confirm") = 0
            /\ pc[h] \notin {"await_derive", "await_confirm"}

(***************************************************************************)
(* C4 (amended): without show_display the confirmation is never invoked    *)
(* and the handler never waits for the user; the only await it can be      *)
(* suspended at is the derive_node call.                                   *)
(***************************************************************************)
C4_NeverWaitsForUser ==
    \A h \in Tasks :
        ~DisplayRequested(h) =>
            /\ FnCount(h, "require_confirm") = 0
            /\ pc[h] # "await_confirm"
            /\ decision[h] = "none"
            /\ pc[h] \in {"start", "await_derive", "done"}

C4_Witness ==
    \E h \in Tasks :
        /\ msg[h].show_display = <<FALSE>>
        /\ Done(h)
        /\ outcome[h] = "Response"

(***************************************************************************)
(* C5: derive_node gets a curve_name exactly when ecdsa_curve_name is a    *)
(* non-empty string, and then that string; otherwise it gets the context   *)
(* and the path only, never an empty curve_name.                           *)
(***************************************************************************)
C5_CurveOnlyIfNonEmpty ==
    \A h \in Tasks : \A i \in 1..Len(calls[h]) :
        calls[h][i].fn = "derive_node" =>
            /\ calls[h][i].params[1] = msg[h].address_n
            /\ calls[h][i].params[2] # <<"">>
            /\ msg[h].ecdsa_curve_name \in {<<>>, <<"">>} <=>
                   calls[h][i].params[2] = <<>>
            /\ msg[h].ecdsa_curve_name \notin {<<>>, <<"">>} =>
                   calls[h][i].params[2] = msg[h].ecdsa_curve_name

C5_Witness ==
    \E h \in Tasks :
        /\ msg[h].ecdsa_curve_name = <<"">>
        /\ FnCount(h, "derive_node") = 1
        /\ Done(h)

(***************************************************************************)
(* C6: of two requests that differ only in coin_name, one without it (or   *)
(* with the empty string) and one with "Bitcoin", that got the same        *)
(* derivation result and the same user decision, both made the same calls  *)
(* with the same arguments and ended with the same Response or failure.    *)
(***************************************************************************)
C6_DefaultCoinIsBitcoin ==
    (/\ Tasks = {1, 2}
     /\ msg[1].coin_name \in {<<>>, <<"">>}
     /\ msg[2] = [msg[1] EXCEPT !.coin_name = <<"Bitcoin">>]
     /\ Done(1) /\ Done(2)
     /\ derived[1] = derived[2] /\ node[1] = node[2]
     /\ (decision[1] # "none" /\ decision[2] # "none") =>
            decision[1] = decision[2])
    => /\ calls[1] = calls[2]
       /\ outcome[1] = outcome[2]
       /\ resp[1] = resp[2]

C6_Witness ==
    /\ Tasks = {1, 2}
    /\ msg[1].coin_name = <<"">>
    /\ msg[2].coin_name = <<"Bitcoin">>
    /\ Done(1) /\ Done(2)
    /\ node[1] = node[2]
    /\ decision[1] = "approved" /\ decision[2] = "approved"
    /\ outcome[1] = "Response"

C8_KeyOfNodeRecord ==
    \A h \in Tasks :
        /\ pubkey[h] # <<>> =>
            IF RawKey(h)[1] = 1
            THEN /\ Len(pubkey[h]) = Len(RawKey(h))
                 /\ pubkey[h][1] = 0
                 /\ \A i \in 2..Len(RawKey(h)) : pubkey[h][i] = RawKey(h)[i]
            ELSE pubkey[h] = RawKey(h)
        /\ resp[h] # <<>> => resp[h][1].node.public_key = pubkey[h]

C8_Witness ==
    \E h \in Tasks :
        /\ resp[h] # <<>>
        /\ RawKey(h)[1] = 1
        /\ RawKey(h)[2] = 1
        /\ resp[h][1].node.public_key[1] = 0
        /\ resp[h][1].node.public_key[2] = 1

(***************************************************************************)
(* C9: the normalized key has exactly 33 bytes whatever the raw key's      *)
(* first byte, and normalizing it again returns it unchanged.              *)
(***************************************************************************)
C9_NormalizeIdempotent ==
    \A h \in Tasks :
        pubkey[h] # <<>> =>
            /\ Len(RawKey(h)) = PubKeyLen
            /\ Len(pubkey[h]) = PubKeyLen
            /\ Normalize(pubkey[h]) = pubkey[h]
            /\ Len(Normalize(pubkey[h])) = PubKeyLen

C9_Witness ==
    \E h \in Tasks :
        /\ pubkey[h] # <<>>
        /\ RawKey(h)[1] = 1
        /\ pubkey[h] # RawKey(h)

(***************************************************************************)
(* C10: within a request derive_node, the coin lookup and the confirmation *)
(* are each invoked at most once; nothing is invoked after a failure; the  *)
(* confirmation is shown only with the normalized key; the request ends in *)
(* exactly one of Response, DerivationFailure, UnknownCoin, UserCancelled, *)
(* and in a Response exactly when the derivation succeeded, the coin was   *)
(* found and show_display was unset or the user approved.                  *)
(***************************************************************************)
C10_FailuresAbort ==
    \A h \in Tasks :
        /\ FnCount(h, "derive_node") <= 1
        /\ FnCount(h, "by_name") <= 1
        /\ FnCount(h, "serialize_public") <= 1
        /\ FnCount(h, "require_confirm") <= 1
        /\ derived[h] = "failed" =>
               /\ Len(calls[h]) = 1
               /\ Done(h) /\ outcome[h] = "DerivationFailure"
        /\ (derived[h] = "ok" /\ ~Registered(h)) =>
               /\ Len(calls[h]) = 2
               /\ Done(h) /\ outcome[h] = "UnknownCoin"
        /\ decision[h] = "cancelled" =>
               Done(h) /\ outcome[h] = "UserCancelled"
        /\ \A i \in 1..Len(calls[h]) :
               calls[h][i].fn = "require_confirm" =>
                   /\ i = Len(calls[h])
                   /\ derived[h] = "ok" /\ Registered(h)
                   /\ calls[h][i].params[1] = ExpectedKey(h)
        /\ ~Done(h) => outcome[h] = "pending" /\ resp[h] = <<>>
        /\ Done(h) =>
               /\ outcome[h] \in {"Response", "DerivationFailure",
                                  "UnknownCoin", "UserCancelled"}
               /\ outcome[h] = "Response" <=> resp[h] # <<>>
               /\ outcome[h] = "Response" <=>
                      /\ derived[h] = "ok"
                      /\ Registered(h)
                      /\ ~DisplayRequested(h) \/ decision[h] = "approved"

C10_Witness ==
    \E h \in Tasks :
        /\ DisplayRequested(h)
        /\ Done(h)
        /\ outcome[h] = "DerivationFailure"
        /\ Len(calls[h]) = 1

====
